---- MODULE Spec2Model ----
(***************************************************************************)
(* A model of src/magic_formula.py: the MagicFormula algorithm, a monthly  *)
(* rotation engine.  The host platform calls CoarseFilterFunction on every *)
(* daily snapshot; when that returns a list it calls                       *)
(* FineFundamentalFunction on the fine data of the listed symbols, and     *)
(* then notifies OnSecuritiesChanged with the securities the Fine Ranker   *)
(* selected.                                                               *)
(*                                                                         *)
(* Units: MarketCap is in currency units, ForwardROA in hundredths (0.25   *)
(* is 25), target weights in thousandths of total portfolio value (the     *)
(* code rounds the weight to three decimals).  A calendar month is         *)
(* numbered by `abs`: abs 0 is December 2015, abs 1 is January 2016 (the   *)
(* start date), abs 13 is January 2017.                                    *)
(***************************************************************************)
EXTENDS Integers, Sequences, FiniteSets, TLC

VARIABLES
    Time,                  \* self.Time: [abs, day]
    warmLeft,              \* warm-up ticks still to elapse (self.IsWarmingUp)
    lastMonth,             \* self.lastMonth
    month,                 \* self.month (NoMonth: not assigned yet)
    purchased_securities,  \* self.purchased_securities, in insertion order
    pc,                    \* what the host platform does next ("raised": it has stopped)
    coarse,                \* argument of the last CoarseFilterFunction call that filtered
    coarseResult,          \* what the last CoarseFilterFunction call returned
    fine,                  \* argument of the FineFundamentalFunction call
    fineResult,            \* what the last FineFundamentalFunction call returned
    events,                \* intents and ledger writes of the current day, in order
    holding,               \* history: symbols with an acquisition intent not yet liquidated
    acquiredAt,            \* history: abs month of each open acquisition intent (0: none)
    emittedAbs             \* history: abs month of the last CandidateList emitted (-1: none)

vars == <<Time, warmLeft, lastMonth, month, purchased_securities, pc, coarse,
          coarseResult, fine, fineResult, events, holding, acquiredAt, emittedAbs>>

----------------------------------------------------------------------------
(* Bounds of the model *)

MaxAbs == 26
DaysPerMonth == 2
WarmUpTicks == 2
MaxLen == 3

----------------------------------------------------------------------------
(* Initialize: RotationConfig *)

NumberSecurtitiesPortfolio == 24

MonthsToKeepSecurities == 12

\* int(a / b) for positive a, b
NumberSecuritiesPerMonth == NumberSecurtitiesPortfolio \div MonthsToKeepSecurities

\* A Python float is an IEEE 754 binary64 number: a positive one is [m, e], m its 53
\* significant bits, most significant first, and its value is m * 2^e.
MantissaBits == 53

\* zero bits appended to a dividend, so that the quotient has its 53 bits, the bit
\* after them and a remainder
ExtraBits == 64

Zeros(n) == [i \in 1..n |-> 0]

\* the bits of the natural number n below 2^30, most significant first
NatBits(n) ==
    LET len == CHOOSE l \in 1..30 : n < 2^l /\ (l = 1 \/ 2^(l - 1) <= n)
    IN  [i \in 1..len |-> (n \div 2^(len - i)) % 2]

RECURSIVE BitsNat(_)
\* the natural number of a bit sequence
BitsNat(bits) ==
    IF bits = <<>> THEN 0
    ELSE 2 * BitsNat(SubSeq(bits, 1, Len(bits) - 1)) + bits[Len(bits)]

\* the bit sequence plus one
IncBits(bits) ==
    LET zeros == {i \in DOMAIN bits : bits[i] = 0}
    IN  IF zeros = {} THEN <<1>> \o Zeros(Len(bits))
        ELSE LET z == CHOOSE i \in zeros : \A j \in zeros : j <= i
             IN  [i \in DOMAIN bits |-> IF i < z THEN bits[i] ELSE IF i = z THEN 1 ELSE 0]

Reverse(seq) == [i \in 1..Len(seq) |-> seq[Len(seq) + 1 - i]]

RECURSIVE MulCarry(_, _, _)
\* the bit sequence lsb, least significant bit first, times c, plus carry: the low
\* Len(lsb) bits of the product, least significant first, and what is carried out
MulCarry(lsb, c, carry) ==
    IF Len(lsb) = 1
    THEN [bits |-> <<(lsb[1] * c + carry) % 2>>, carry |-> (lsb[1] * c + carry) \div 2]
    ELSE LET half == Len(lsb) \div 2
             low  == MulCarry(SubSeq(lsb, 1, half), c, carry)
             high == MulCarry(SubSeq(lsb, half + 1, Len(lsb)), c, low.carry)
         IN  [bits |-> low.bits \o high.bits, carry |-> high.carry]

\* the bit sequence, most significant bit first, times c
MulBits(bits, c) ==
    LET p == MulCarry(Reverse(bits), c, 0)
    IN  (IF p.carry = 0 THEN <<>> ELSE NatBits(p.carry)) \o Reverse(p.bits)

RECURSIVE LongDiv(_, _, _)
\* the bit sequence, after a remainder r, divided by d: quotient bits q and
\* remainder r
LongDiv(bits, d, r) ==
    IF Len(bits) = 1
    THEN [q |-> <<(2 * r + bits[1]) \div d>>, r |-> (2 * r + bits[1]) % d]
    ELSE LET half == Len(bits) \div 2
             high == LongDiv(SubSeq(bits, 1, half), d, r)
             low  == LongDiv(SubSeq(bits, half + 1, Len(bits)), d, high.r)
         IN  [q |-> high.q \o low.q, r |-> low.r]

\* float(n) of a positive int n below 2^30
Float(n) ==
    LET b == NatBits(n)
    IN  [m |-> b \o Zeros(MantissaBits - Len(b)), e |-> Len(b) - MantissaBits]

\* x / d for a positive float x and a positive int d: the quotient rounded to the
\* nearest float, a tie to the even one
FloatDiv(x, d) ==
    LET dv     == LongDiv(x.m \o Zeros(ExtraBits), d, 0)
        q      == dv.q
        first  == CHOOSE i \in DOMAIN q : q[i] = 1 /\ \A j \in 1..(i - 1) : q[j] = 0
        kept   == SubSeq(q, first, first + MantissaBits - 1)
        guard  == q[first + MantissaBits]
        sticky == dv.r # 0 \/ \E j \in (first + MantissaBits + 1)..Len(q) : q[j] = 1
        up     == guard = 1 /\ (sticky \/ kept[MantissaBits] = 1)
        raised == IF up THEN IncBits(kept) ELSE kept
    IN  IF Len(raised) > MantissaBits
        THEN [m |-> SubSeq(raised, 1, MantissaBits), e |-> x.e - (first - 1) + 1]
        ELSE [m |-> raised, e |-> x.e - (first - 1)]

\* round(x, 3) in thousandths, for a float x with 0 < x <= 1: the exact value of the
\* float rounded to three decimals, a tie to the even digit
Round3(x) ==
    LET n      == MulBits(x.m, 1000)
        s      == 0 - x.e
        padded == Zeros(IF s + 1 > Len(n) THEN s + 1 - Len(n) ELSE 0) \o n
        cut    == Len(padded) - s
        k      == BitsNat(SubSeq(padded, 1, cut))
        frac   == SubSeq(padded, cut + 1, Len(padded))
        half   == frac # <<>> /\ frac[1] = 1
        rest   == \E j \in 2..Len(frac) : frac[j] = 1
    IN  IF half /\ (rest \/ k % 2 = 1) THEN k + 1 ELSE k

\* round((perMonth / portfolio) / perMonth, 3), in thousandths
percent_holding ==
    Round3(FloatDiv(FloatDiv(Float(NumberSecuritiesPerMonth), NumberSecurtitiesPortfolio),
                    NumberSecuritiesPerMonth))

----------------------------------------------------------------------------
(* The clock *)

MonthsPerYear == 12

\* a mutant of TimeMonth: months counted from 0
TimeMonth_fromZero(t) == (t.abs - 1) % MonthsPerYear

\* self.Time.month, 1..12
TimeMonth(t) == ((t.abs - 1) % MonthsPerYear) + 1

IsWarmingUp == warmLeft > 0

\* self.month while no attribute of that name exists: Initialize does not assign it,
\* the first CoarseFilterFunction call after warm-up does
NoMonth == -1

----------------------------------------------------------------------------
(* Python helpers *)

\* a mutant of Sorted: reverse=True as the reversal of the ascending sort
Sorted_reversesTies(seq, key, reverse) ==
    LET Before(j, i) ==
            \/ (IF reverse THEN seq[j][key] > seq[i][key] ELSE seq[j][key] < seq[i][key])
            \/ (seq[j][key] = seq[i][key] /\ (IF reverse THEN j > i ELSE j < i))
        Rank(i) == Cardinality({j \in DOMAIN seq : Before(j, i)}) + 1
    IN  [p \in DOMAIN seq |-> seq[CHOOSE i \in DOMAIN seq : Rank(i) = p]]

\* sorted(seq, key=lambda x: x.<key>, reverse=reverse): stable in both directions
Sorted(seq, key, reverse) ==
    LET Before(j, i) ==
            \/ (IF reverse THEN seq[j][key] > seq[i][key] ELSE seq[j][key] < seq[i][key])
            \/ (seq[j][key] = seq[i][key] /\ j < i)
        Rank(i) == Cardinality({j \in DOMAIN seq : Before(j, i)}) + 1
    IN  [p \in DOMAIN seq |-> seq[CHOOSE i \in DOMAIN seq : Rank(i) = p]]

\* a mutant of Take: seq[-n:], the last n entries
Take_last(seq, n) == SubSeq(seq, IF Len(seq) < n THEN 1 ELSE Len(seq) - n + 1, Len(seq))

\* seq[:n]
Take(seq, n) == SubSeq(seq, 1, IF Len(seq) < n THEN Len(seq) ELSE n)

\* a dict is the sequence of its items, in insertion order
DictKeys(d) == {d[i].key : i \in DOMAIN d}

DictGet(d, k) == d[CHOOSE i \in DOMAIN d : d[i].key = k].value

\* d[k] = v: a new key goes last, an old key keeps its place
DictSet(d, k, v) ==
    IF k \in DictKeys(d)
    THEN [i \in DOMAIN d |-> IF d[i].key = k THEN [key |-> k, value |-> v] ELSE d[i]]
    ELSE Append(d, [key |-> k, value |-> v])

\* d.pop(k) for every k of ks
DictPopAll(d, ks) == SelectSeq(d, LAMBDA e : e.key \notin ks)

Range(seq) == {seq[i] : i \in DOMAIN seq}

----------------------------------------------------------------------------
(* CoarseFilterFunction *)

\* Universe.Unchanged, and a returned list
Unchanged == [kind |-> "Unchanged", symbols |-> <<>>]

SymbolList(symbols) == [kind |-> "List", symbols |-> symbols]

\* no call has returned yet today
NoResult == [kind |-> "none", symbols |-> <<>>]

\* a mutant of CoarseFilterFunction: self.lastMonth is never assigned
CoarseFilterFunction_keepsLastMonth(warming, tmonth, curMonth, last, input) ==
    IF warming
    THEN [result |-> Unchanged, month |-> curMonth, lastMonth |-> last]
    ELSE IF tmonth = last
    THEN [result |-> Unchanged, month |-> tmonth, lastMonth |-> last]
    ELSE LET filtered      == SelectSeq(input, LAMBDA x : x.HasFundamentalData)
             dollar_sorted == Sorted(filtered, "DollarVolume", TRUE)
         IN  [result    |-> SymbolList([i \in DOMAIN dollar_sorted |->
                                               dollar_sorted[i].Symbol]),
              month     |-> tmonth,
              lastMonth |-> last]

\* a mutant of CoarseFilterFunction: the warm-up flag is not looked at
CoarseFilterFunction_noWarmUp(warming, tmonth, curMonth, last, input) ==
    IF tmonth = last
    THEN [result |-> Unchanged, month |-> tmonth, lastMonth |-> last]
    ELSE LET filtered      == SelectSeq(input, LAMBDA x : x.HasFundamentalData)
             dollar_sorted == Sorted(filtered, "DollarVolume", TRUE)
         IN  [result    |-> SymbolList([i \in DOMAIN dollar_sorted |->
                                               dollar_sorted[i].Symbol]),
              month     |-> tmonth,
              lastMonth |-> tmonth]

\* a mutant of CoarseFilterFunction: self.lastMonth is assigned before it is compared
CoarseFilterFunction_assignsFirst(warming, tmonth, curMonth, last, input) ==
    IF warming
    THEN [result |-> Unchanged, month |-> curMonth, lastMonth |-> last]
    ELSE [result |-> Unchanged, month |-> tmonth, lastMonth |-> tmonth]

\* returns the result and the new self.month and self.lastMonth; curMonth and last
\* are self.month and self.lastMonth at the call, tmonth is self.Time.month
CoarseFilterFunction(warming, tmonth, curMonth, last, input) ==
    IF warming
    THEN [result |-> Unchanged, month |-> curMonth, lastMonth |-> last]
    ELSE IF tmonth = last
    THEN [result |-> Unchanged, month |-> tmonth, lastMonth |-> last]
    ELSE LET filtered      == SelectSeq(input, LAMBDA x : x.HasFundamentalData)
             dollar_sorted == Sorted(filtered, "DollarVolume", TRUE)
         IN  [result    |-> SymbolList([i \in DOMAIN dollar_sorted |->
                                               dollar_sorted[i].Symbol]),
              month     |-> tmonth,
              lastMonth |-> tmonth]

----------------------------------------------------------------------------
(* FineFundamentalFunction *)

MarketCapFloor == 50000000

ForwardROAFloor == 25

\* a mutant of filtered_marketcap: the floor itself passes
filtered_marketcap_inclusive(input) ==
    SelectSeq(input, LAMBDA x : x.MarketCap >= MarketCapFloor)

filtered_marketcap(input) == SelectSeq(input, LAMBDA x : x.MarketCap > MarketCapFloor)

filtered_us(input) ==
    SelectSeq(filtered_marketcap(input),
              LAMBDA x : x.CountryId = "USA"
                         /\ (x.PrimaryExchangeID = "NYS" \/ x.PrimaryExchangeID = "NAS"))

filtered_indu(input) ==
    SelectSeq(filtered_us(input),
              LAMBDA x : x.MorningstarSectorCode # "Utilities"
                         /\ x.MorningstarSectorCode # "FinancialServices")

filtered_ROA(input) ==
    SelectSeq(filtered_indu(input), LAMBDA x : x.ForwardROA > ForwardROAFloor)

sorted_EVToEBITDA(input) == Sorted(filtered_ROA(input), "EVToEBITDA", TRUE)

\* a mutant of sorted_ROA: the two sorts in the other order
sorted_ROA_thenEV(input) ==
    Sorted(Sorted(filtered_ROA(input), "ForwardROA", FALSE), "EVToEBITDA", TRUE)

sorted_ROA(input) == Sorted(sorted_EVToEBITDA(input), "ForwardROA", FALSE)

\* a mutant of not_holding: symbols in the ledger are not excluded
not_holding_keepsHeld(input, ps) ==
    [i \in DOMAIN sorted_ROA(input) |-> sorted_ROA(input)[i].Symbol]

not_holding(input, ps) ==
    LET kept == SelectSeq(sorted_ROA(input), LAMBDA f : f.Symbol \notin DictKeys(ps))
    IN  [i \in DOMAIN kept |-> kept[i].Symbol]

\* a mutant of FineFundamentalFunction: the list is not truncated
FineFundamentalFunction_noTruncate(input, ps) == not_holding(input, ps)

FineFundamentalFunction(input, ps) == Take(not_holding(input, ps), NumberSecuritiesPerMonth)

----------------------------------------------------------------------------
(* sell_securities and OnSecuritiesChanged *)

Liquidate(s) == [op |-> "Liquidate", symbol |-> s, value |-> 0]

Pop(s) == [op |-> "pop", symbol |-> s, value |-> 0]

SetHoldings(s, w) == [op |-> "SetHoldings", symbol |-> s, value |-> w]

Insert(s, m) == [op |-> "insert", symbol |-> s, value |-> m]

\* a mutant of to_pop: value <= month
to_pop_upTo(ps, m) ==
    LET hit == SelectSeq(ps, LAMBDA e : e.value <= m)
    IN  [i \in DOMAIN hit |-> hit[i].key]

\* the keys whose value is m, in dict order
to_pop(ps, m) ==
    LET hit == SelectSeq(ps, LAMBDA e : e.value = m)
    IN  [i \in DOMAIN hit |-> hit[i].key]

\* a mutant of sell_securities: the entries liquidated stay in the ledger
sell_securities_keepsEntries(ps, m) ==
    LET keys == to_pop(ps, m)
    IN  [ledger |-> ps,
         events |-> [i \in DOMAIN keys |-> Liquidate(keys[i])]]

\* a mutant of sell_securities: the comparison is with the month before self.month
sell_securities_previousMonth(ps, m) ==
    LET keys == to_pop(ps, m - 1)
    IN  [ledger |-> DictPopAll(ps, Range(keys)),
         events |-> [i \in DOMAIN keys |-> Liquidate(keys[i])]
                    \o [i \in DOMAIN keys |-> Pop(keys[i])]]

\* returns the ledger left and the events, in order: every Liquidate, then every pop
sell_securities(ps, m) ==
    LET keys == to_pop(ps, m)
    IN  [ledger |-> DictPopAll(ps, Range(keys)),
         events |-> [i \in DOMAIN keys |-> Liquidate(keys[i])]
                    \o [i \in DOMAIN keys |-> Pop(keys[i])]]

RECURSIVE BuyLoop(_, _, _)
\* for security in changes.AddedSecurities: SetHoldings, then the ledger write
BuyLoop(ps, added, tmonth) ==
    IF added = <<>>
    THEN [ledger |-> ps, events |-> <<>>]
    ELSE LET s    == Head(added)
             rest == BuyLoop(DictSet(ps, s, tmonth), Tail(added), tmonth)
         IN  [ledger |-> rest.ledger,
              events |-> <<SetHoldings(s, percent_holding), Insert(s, tmonth)>>
                         \o rest.events]

\* a mutant of OnSecuritiesChanged: the buy loop runs before sell_securities
OnSecuritiesChanged_buyFirst(ps, m, added, tmonth) ==
    LET bought == BuyLoop(ps, added, tmonth)
        sold   == sell_securities(bought.ledger, m)
    IN  [ledger |-> sold.ledger, events |-> bought.events \o sold.events]

\* sell_securities(self.month), then the buy loop
OnSecuritiesChanged(ps, m, added, tmonth) ==
    LET sold   == sell_securities(ps, m)
        bought == BuyLoop(sold.ledger, added, tmonth)
    IN  [ledger |-> bought.ledger, events |-> sold.events \o bought.events]

----------------------------------------------------------------------------
(* History of the intents issued *)

RECURSIVE OpenAfter(_, _)
\* the symbols acquired and not later liquidated, after the intents of evs
OpenAfter(open, evs) ==
    IF evs = <<>> THEN open
    ELSE LET e == Head(evs)
         IN  OpenAfter(IF e.op = "SetHoldings" THEN open \cup {e.symbol}
                       ELSE IF e.op = "Liquidate" THEN open \ {e.symbol}
                       ELSE open,
                       Tail(evs))

RECURSIVE AcquiredAfter(_, _, _)
AcquiredAfter(acq, evs, now) ==
    IF evs = <<>> THEN acq
    ELSE LET e == Head(evs)
         IN  AcquiredAfter(IF e.op = "SetHoldings" THEN [acq EXCEPT ![e.symbol] = now]
                           ELSE IF e.op = "Liquidate" THEN [acq EXCEPT ![e.symbol] = 0]
                           ELSE acq,
                           Tail(evs), now)

----------------------------------------------------------------------------
(* The market the host platform feeds in *)

SymbolSeq == <<"A", "B", "C", "D", "E", "F", "G", "H">>

Symbols == Range(SymbolSeq)

\* the coarse snapshot of a symbol: H has no fundamental data, dollar volumes tie
\* for C and D
CoarseData(s) ==
    [Symbol             |-> s,
     HasFundamentalData |-> s # "H",
     DollarVolume       |-> CASE s = "A" -> 900 [] s = "B" -> 800 [] s = "C" -> 700
                              [] s = "D" -> 700 [] s = "E" -> 950 [] s = "F" -> 100
                              [] OTHER -> 500]

\* the fine snapshot of a symbol: G is below the market cap floor, A and B tie on
\* ROA, C and D tie on both keys
FineData(s) ==
    [Symbol                |-> s,
     MarketCap             |-> IF s = "G" THEN 40000000 ELSE 60000000,
     CountryId             |-> "USA",
     PrimaryExchangeID     |-> IF s \in {"A", "C", "E"} THEN "NYS" ELSE "NAS",
     MorningstarSectorCode |-> "Technology",
     ForwardROA            |-> CASE s \in {"A", "B"} -> 26 [] s \in {"C", "D"} -> 30
                                 [] s = "E" -> 40 [] OTHER -> 41,
     EVToEBITDA            |-> CASE s = "A" -> 3 [] s = "B" -> 5 [] s \in {"C", "D"} -> 4
                                 [] OTHER -> 2]

\* the fine objects the platform hands to FineFundamentalFunction for a coarse result
FineObjects(symbols) == [i \in DOMAIN symbols |-> FineData(symbols[i])]

\* the daily universes of the engine runs
Universes ==
    { <<>>,
      <<"A", "B", "C", "D", "E", "F", "G", "H">>,
      <<"H", "G", "F", "E">>,
      <<"D", "C">> }

CoarseFeeds == { [i \in DOMAIN u |-> CoarseData(u[i])] : u \in Universes }

----------------------------------------------------------------------------
(* The engine: daily ticks and monthly cycles *)

Init ==
    /\ Time = [abs |-> 0, day |-> 1]
    /\ warmLeft = WarmUpTicks
    /\ lastMonth = -1
    /\ month = NoMonth
    /\ purchased_securities = <<>>
    /\ pc = "coarse"
    /\ coarse = <<>>
    /\ coarseResult = NoResult
    /\ fine = <<>>
    /\ fineResult = <<>>
    /\ events = <<>>
    /\ holding = {}
    /\ acquiredAt = [s \in Symbols |-> 0]
    /\ emittedAbs = -1

\* the next trading day, in a run that ends with month maxAbs
TickTo(maxAbs) ==
    /\ pc = "tick"
    /\ Time.day < DaysPerMonth \/ Time.abs < maxAbs
    /\ Time' = IF Time.day < DaysPerMonth
               THEN [Time EXCEPT !.day = @ + 1]
               ELSE [abs |-> Time.abs + 1, day |-> 1]
    /\ warmLeft' = IF warmLeft > 0 THEN warmLeft - 1 ELSE 0
    /\ pc' = "coarse"
    /\ coarse' = <<>>
    /\ coarseResult' = NoResult
    /\ fine' = <<>>
    /\ fineResult' = <<>>
    /\ events' = <<>>
    /\ UNCHANGED <<lastMonth, month, purchased_securities, holding, acquiredAt,
                   emittedAbs>>

Tick == TickTo(MaxAbs)

\* a call of CoarseFilterFunction on the snapshot input
CoarseCall(input) ==
    /\ pc = "coarse"
    /\ LET r == CoarseFilterFunction(IsWarmingUp, TimeMonth(Time), month, lastMonth,
                                     input)
           emitted == r.result.kind = "List"
       IN  /\ month' = r.month
           /\ lastMonth' = r.lastMonth
           /\ coarseResult' = r.result
           /\ coarse' = IF emitted THEN input ELSE <<>>
           /\ fine' = IF emitted THEN FineObjects(r.result.symbols) ELSE <<>>
           /\ emittedAbs' = IF emitted THEN Time.abs ELSE emittedAbs
           /\ pc' = IF emitted THEN "fine" ELSE "tick"
    /\ UNCHANGED <<Time, warmLeft, purchased_securities, fineResult, events, holding,
                   acquiredAt>>

\* the platform calls CoarseFilterFunction on the day's snapshot
CoarseStep == \E input \in CoarseFeeds : CoarseCall(input)

\* a mutant of FineStep: the ledger entries are written when the symbols are selected
FineStep_writesLedger ==
    /\ pc = "fine"
    /\ fineResult' = FineFundamentalFunction(fine, purchased_securities)
    /\ purchased_securities' = BuyLoop(purchased_securities, fineResult',
                                       TimeMonth(Time)).ledger
    /\ pc' = "changed"
    /\ UNCHANGED <<Time, warmLeft, lastMonth, month, coarse, coarseResult, fine, events,
                   holding, acquiredAt, emittedAbs>>

\* the platform calls FineFundamentalFunction on the coarse result's fine data
FineStep ==
    /\ pc = "fine"
    /\ fineResult' = FineFundamentalFunction(fine, purchased_securities)
    /\ pc' = "changed"
    /\ UNCHANGED <<Time, warmLeft, lastMonth, month, purchased_securities, coarse,
                   coarseResult, fine, events, holding, acquiredAt, emittedAbs>>

\* the platform notifies OnSecuritiesChanged of the securities the Fine Ranker added
ChangedStep ==
    /\ pc = "changed"
    /\ LET r == OnSecuritiesChanged(purchased_securities, month, fineResult,
                                    TimeMonth(Time))
       IN  /\ purchased_securities' = r.ledger
           /\ events' = events \o r.events
           /\ holding' = OpenAfter(holding, r.events)
           /\ acquiredAt' = AcquiredAfter(acquiredAt, r.events, Time.abs)
    /\ pc' = "tick"
    /\ UNCHANGED <<Time, warmLeft, lastMonth, month, coarse, coarseResult, fine,
                   fineResult, emittedAbs>>

Next == Tick \/ CoarseStep \/ FineStep \/ ChangedStep

Spec == Init /\ [][Next]_vars

----------------------------------------------------------------------------
(* The Fine Ranker alone, on every input list of a bounded family *)

\* what a fine snapshot can look like: four that pass every screen, and one failing
\* each screen with every other field passing
FineProfiles ==
    LET ok == [MarketCap |-> 60000000, CountryId |-> "USA", PrimaryExchangeID |-> "NYS",
               MorningstarSectorCode |-> "Technology", ForwardROA |-> 30,
               EVToEBITDA |-> 2]
    IN  { [ok EXCEPT !.ForwardROA = r, !.EVToEBITDA = e] : r \in {26, 30}, e \in {1, 2} }
        \cup { [ok EXCEPT !.MarketCap = 40000000],
               [ok EXCEPT !.MarketCap = 50000000],
               [ok EXCEPT !.CountryId = "CAN"],
               [ok EXCEPT !.PrimaryExchangeID = "ASE"],
               [ok EXCEPT !.MorningstarSectorCode = "Utilities"],
               [ok EXCEPT !.MorningstarSectorCode = "FinancialServices"],
               [ok EXCEPT !.ForwardROA = 25] }

WithSymbol(p, s) ==
    [Symbol |-> s, MarketCap |-> p.MarketCap, CountryId |-> p.CountryId,
     PrimaryExchangeID |-> p.PrimaryExchangeID,
     MorningstarSectorCode |-> p.MorningstarSectorCode, ForwardROA |-> p.ForwardROA,
     EVToEBITDA |-> p.EVToEBITDA]

\* the lists of at most MaxLen snapshots of distinct symbols
FineInputs ==
    UNION { { [i \in 1..n |-> WithSymbol(ps[i], SymbolSeq[i])] :
                ps \in [1..n -> FineProfiles] } : n \in 0..MaxLen }

\* the ledger holding the symbols of held, two bought in each past month
LedgerOf(held) ==
    LET all == [i \in DOMAIN SymbolSeq |->
                   [key |-> SymbolSeq[i], value |-> (i + 1) \div NumberSecuritiesPerMonth]]
    IN  SelectSeq(all, LAMBDA e : e.key \in held)

HeldSets == { {}, {"A"}, {"A", "B"}, {"B", "C", "E"} }

\* the month after the ledgers' last purchase
FineAbs == 4

InitFine ==
    /\ Time = [abs |-> FineAbs, day |-> 1]
    /\ warmLeft = 0
    /\ lastMonth = TimeMonth(Time)
    /\ month = TimeMonth(Time)
    /\ \E held \in HeldSets :
         /\ purchased_securities = LedgerOf(held)
         /\ holding = held
         /\ acquiredAt = [s \in Symbols |->
                            IF s \in held THEN DictGet(LedgerOf(held), s) ELSE 0]
    /\ pc = "fine"
    /\ fine \in FineInputs
    /\ coarse = <<>>
    /\ coarseResult = SymbolList([i \in DOMAIN fine |-> fine[i].Symbol])
    /\ fineResult = <<>>
    /\ events = <<>>
    /\ emittedAbs = FineAbs

NextFine == FineStep

SpecFine == InitFine /\ [][NextFine]_vars

----------------------------------------------------------------------------
(* The Coarse Filter alone, on every input list of a bounded family *)

\* what a coarse snapshot can look like: with or without fundamental data, on three
\* dollar volumes
CoarseProfiles == [HasFundamentalData : BOOLEAN, DollarVolume : {100, 200, 300}]

\* the lists of at most MaxLen snapshots of distinct symbols
CoarseInputs ==
    UNION { { [i \in 1..n |-> [Symbol             |-> SymbolSeq[i],
                               HasFundamentalData |-> ps[i].HasFundamentalData,
                               DollarVolume       |-> ps[i].DollarVolume]] :
                ps \in [1..n -> CoarseProfiles] } : n \in 0..MaxLen }

\* the first trading day of the first month: still warming up, or the first active
\* tick
InitCoarse ==
    /\ Time = [abs |-> 1, day |-> 1]
    /\ warmLeft \in {0, 1}
    /\ lastMonth = -1
    /\ month = NoMonth
    /\ purchased_securities = <<>>
    /\ pc = "coarse"
    /\ coarse = <<>>
    /\ coarseResult = NoResult
    /\ fine = <<>>
    /\ fineResult = <<>>
    /\ events = <<>>
    /\ holding = {}
    /\ acquiredAt = [s \in Symbols |-> 0]
    /\ emittedAbs = -1

NextCoarse == \E input \in CoarseInputs : CoarseCall(input)

SpecCoarse == InitCoarse /\ [][NextCoarse]_vars

----------------------------------------------------------------------------
(* The engine on a market wide enough to fill every slot *)

\* 26 of these 28 symbols pass every filter: G and H do not
CapacitySymbolSeq ==
    SymbolSeq \o <<"I", "J", "K", "L", "M", "N", "O", "P", "Q", "R", "S", "T", "U", "V",
                   "W", "X", "Y", "Z", "AA", "AB">>

\* a day's snapshot lists every symbol, or every symbol but the last two: 26 or 24
\* symbols that pass every filter
CapacityFeeds ==
    LET all == [i \in DOMAIN CapacitySymbolSeq |-> CoarseData(CapacitySymbolSeq[i])]
    IN  { all, SubSeq(all, 1, Len(all) - NumberSecuritiesPerMonth) }

\* the last month of the runs on the wide market
MaxAbsCapacity == 14

InitCapacity ==
    /\ Time = [abs |-> 0, day |-> 1]
    /\ warmLeft = WarmUpTicks
    /\ lastMonth = -1
    /\ month = NoMonth
    /\ purchased_securities = <<>>
    /\ pc = "coarse"
    /\ coarse = <<>>
    /\ coarseResult = NoResult
    /\ fine = <<>>
    /\ fineResult = <<>>
    /\ events = <<>>
    /\ holding = {}
    /\ acquiredAt = [s \in Range(CapacitySymbolSeq) |-> 0]
    /\ emittedAbs = -1

TickCapacity == TickTo(MaxAbsCapacity)

CoarseStepCapacity == \E input \in CapacityFeeds : CoarseCall(input)

NextCapacity == TickCapacity \/ CoarseStepCapacity \/ FineStep \/ ChangedStep

SpecCapacity == InitCapacity /\ [][NextCapacity]_vars

----------------------------------------------------------------------------
(* The engine with further "securities changed" notifications *)

\* the last month of the runs with further notifications
MaxAbsEvents == 3

TickEvents == TickTo(MaxAbsEvents)

\* the platform notifies OnSecuritiesChanged of removed securities only, on any day
\* after the day's selection: changes.AddedSecurities is empty
RemovedStep ==
    /\ pc = "tick"
    /\ IF month = NoMonth
       THEN \* reading self.month raises AttributeError: the algorithm stops
            /\ pc' = "raised"
            /\ UNCHANGED <<purchased_securities, events, holding, acquiredAt>>
       ELSE LET r == OnSecuritiesChanged(purchased_securities, month, <<>>,
                                         TimeMonth(Time))
            IN  /\ purchased_securities' = r.ledger
                /\ events' = events \o r.events
                /\ holding' = OpenAfter(holding, r.events)
                /\ acquiredAt' = AcquiredAfter(acquiredAt, r.events, Time.abs)
                /\ pc' = pc
    /\ UNCHANGED <<Time, warmLeft, lastMonth, month, coarse, coarseResult, fine,
                   fineResult, emittedAbs>>

NextEvents == TickEvents \/ CoarseStep \/ FineStep \/ ChangedStep \/ RemovedStep

SpecEvents == Init /\ [][NextEvents]_vars

----------------------------------------------------------------------------
(* Properties *)

Ops(evs, op) == {i \in DOMAIN evs : evs[i].op = op}

Liquidated(evs) == {evs[i].symbol : i \in Ops(evs, "Liquidate")}

Acquired(evs) == {evs[i].symbol : i \in Ops(evs, "SetHoldings")}

\* C1 (ledger bijection): in every state the keys of purchased_securities are exactly
\* the symbols for which SetHoldings has been issued and no later Liquidate.
C1_LedgerBijection == DictKeys(purchased_securities) = holding

\* a cycle has liquidated some symbols and acquired others, and positions are open
C1_Witness ==
    /\ pc = "tick"
    /\ Liquidated(events) # {}
    /\ Acquired(events) # {}
    /\ Cardinality(holding) = 4

\* C2 (horizon enforcement): a cycle liquidates a held symbol exactly when the symbol
\* was acquired 12 calendar months before the cycle's month, so no sell step
\* liquidates it earlier; and no acquisition stays open once the cycle 12 months
\* after it has run.
C2_HorizonEnforcement ==
    /\ [](\A s \in Symbols :
            acquiredAt[s] # 0 =>
              /\ Time.abs - acquiredAt[s] <= 12
              /\ Time.abs - acquiredAt[s] = 12 => pc \in {"coarse", "fine", "changed"}
              /\ Time.abs - acquiredAt[s] = 12 /\ pc = "coarse" => Time.day = 1)
    /\ [][pc = "changed" =>
            \A s \in Symbols :
              acquiredAt[s] # 0 =>
                (s \in Liquidated(events') <=> Time.abs = acquiredAt[s] + 12)]_vars

\* the cycle of January 2017 has liquidated what January 2016 acquired
C2_Witness ==
    /\ pc = "tick"
    /\ Time.abs = 13
    /\ Cardinality(Liquidated(events)) = 2
    /\ \E s \in Symbols : acquiredAt[s] = 2

\* C3 (quota bound): the list the Fine Ranker returns has at most 24 div 12 = 2
\* entries and none of them is a key of the ledger at the call.
C3_QuotaBound ==
    pc = "changed" =>
      /\ Len(fineResult) <= 24 \div 12
      /\ Range(fineResult) \cap DictKeys(purchased_securities) = {}

\* three snapshots rank, one of them held, and two new ones are returned
C3_Witness ==
    /\ pc = "changed"
    /\ Len(sorted_ROA(fine)) = 3
    /\ \E i \in DOMAIN fine : fine[i].Symbol \in DictKeys(purchased_securities)
                              /\ fine[i] \in Range(sorted_ROA(fine))
    /\ Len(fineResult) = 2

\* C4 (idempotence within a month): a call of the Coarse Filter in the calendar month
\* for which it has already emitted a list returns Unchanged, filters nothing and
\* leaves lastMonth as it was.
C4_IdempotentWithinMonth ==
    [][(pc = "coarse" /\ emittedAbs = Time.abs) =>
         /\ coarseResult' = Unchanged
         /\ coarse' = <<>>
         /\ pc' = "tick"
         /\ lastMonth' = lastMonth]_vars

\* a later call in a month whose list was emitted has returned
C4_Witness ==
    /\ pc = "tick"
    /\ ~IsWarmingUp
    /\ Time.day > 1
    /\ emittedAbs = Time.abs
    /\ coarseResult = Unchanged

\* C5 (sell before buy): among the intents and ledger writes of one
\* OnSecuritiesChanged call, no Liquidate and no ledger removal comes after a
\* SetHoldings or a ledger insertion.
C5_SellBeforeBuy ==
    \A i, j \in DOMAIN events :
      (i < j /\ events[i].op \in {"SetHoldings", "insert"})
        => events[j].op \notin {"Liquidate", "pop"}

\* a cycle has both liquidated and acquired
C5_Witness ==
    /\ pc = "tick"
    /\ Ops(events, "Liquidate") # {}
    /\ Ops(events, "pop") # {}
    /\ Ops(events, "SetHoldings") # {}
    /\ Ops(events, "insert") # {}

\* C6 (warm-up is a no-op): while the warm-up flag is set no call of the Coarse
\* Filter returns a list, no cycle starts, no intent is issued, and the ledger and
\* lastMonth keep their initial values.
C6_WarmUpNoOp ==
    IsWarmingUp =>
      /\ coarseResult.kind # "List"
      /\ pc \in {"coarse", "tick"}
      /\ events = <<>>
      /\ holding = {}
      /\ purchased_securities = <<>>
      /\ lastMonth = -1
      /\ emittedAbs = -1

\* a daily tick of the warm-up has gone through the Coarse Filter
C6_Witness ==
    /\ IsWarmingUp
    /\ warmLeft < WarmUpTicks
    /\ pc = "tick"
    /\ coarseResult = Unchanged

\* the example scenario at the cycle of month 13: A and B are open since month 1, C
\* and D since month 2, nothing else is open, and the Fine Ranker returned two
\* candidates
C7_Scenario ==
    /\ pc = "changed"
    /\ Time.abs = 13
    /\ acquiredAt = [s \in Symbols |-> CASE s \in {"A", "B"} -> 1
                                         [] s \in {"C", "D"} -> 2
                                         [] OTHER -> 0]
    /\ Len(fineResult) = 2

C7_SellsFirst(evs) ==
    /\ Liquidated(evs) = {"A", "B"}
    /\ \A i \in Ops(evs, "Liquidate") \cup Ops(evs, "pop") :
         \A j \in Ops(evs, "SetHoldings") \cup Ops(evs, "insert") : i < j

C7_LedgerWith(ps, new, m) ==
    Range(ps) = {[key |-> "C", value |-> 2], [key |-> "D", value |-> 2]}
                \cup {[key |-> new[i], value |-> m] : i \in DOMAIN new}

\* C7 as stated: the month-13 cycle liquidates A and B before buying and leaves the
\* ledger {C:2, D:2, new1:13, new2:13}.
C7_ExampleAsStated ==
    [][C7_Scenario =>
         /\ C7_SellsFirst(events')
         /\ C7_LedgerWith(purchased_securities', fineResult, 13)]_vars

\* C7 amended: the month-13 cycle liquidates A and B before buying and leaves the
\* ledger {C:2, D:2, new1:1, new2:1}: the stored value is the month of the year.
C7_ExampleAmended ==
    [][C7_Scenario =>
         /\ C7_SellsFirst(events')
         /\ C7_LedgerWith(purchased_securities', fineResult, 1)]_vars

\* the month-13 cycle of the scenario has run
C7_Witness ==
    /\ pc = "tick"
    /\ Time.abs = 13
    /\ Time.day = 1
    /\ Liquidated(events) = {"A", "B"}
    /\ Cardinality(Acquired(events)) = 2
    /\ acquiredAt["C"] = 2
    /\ acquiredAt["D"] = 2
    /\ Cardinality(holding) = 4

\* position in input of the snapshot x
IndexIn(input, x) == CHOOSE i \in DOMAIN input : input[i] = x

\* x ranks before y: lower ROA; on equal ROA higher EV/EBITDA; on both equal,
\* earlier in the input
RanksBefore(input, x, y) ==
    \/ x.ForwardROA < y.ForwardROA
    \/ /\ x.ForwardROA = y.ForwardROA
       /\ \/ x.EVToEBITDA > y.EVToEBITDA
          \/ /\ x.EVToEBITDA = y.EVToEBITDA
             /\ IndexIn(input, x) < IndexIn(input, y)

\* C8 (sort composition): the ranked list holds the screened snapshots, each once,
\* ordered by ROA ascending, equal ROA by EV/EBITDA descending, both equal by input
\* order; and the returned symbols are in that order.
C8_SortComposition ==
    LET ranked == sorted_ROA(fine)
    IN  /\ Range(ranked) = Range(filtered_ROA(fine))
        /\ Len(ranked) = Len(filtered_ROA(fine))
        /\ \A i, j \in DOMAIN ranked : i < j => RanksBefore(fine, ranked[i], ranked[j])
        /\ pc = "changed" =>
             \A i, j \in DOMAIN fineResult :
               i < j => \E x, y \in Range(ranked) :
                          /\ x.Symbol = fineResult[i]
                          /\ y.Symbol = fineResult[j]
                          /\ RanksBefore(fine, x, y)

\* three snapshots rank: two tie on ROA and differ in EV/EBITDA, and the order is
\* neither the input order nor the EV/EBITDA order
C8_Witness ==
    /\ pc = "changed"
    /\ Len(sorted_ROA(fine)) = 3
    /\ sorted_ROA(fine) # sorted_EVToEBITDA(fine)
    /\ sorted_ROA(fine) # filtered_ROA(fine)
    /\ \E i, j \in DOMAIN fine :
         /\ i < j
         /\ fine[i].ForwardROA = fine[j].ForwardROA
         /\ fine[i].EVToEBITDA < fine[j].EVToEBITDA
    /\ Len(fineResult) = 2

PassesScreens(x) ==
    /\ x.MarketCap > 50000000
    /\ x.CountryId = "USA"
    /\ x.PrimaryExchangeID \in {"NYS", "NAS"}
    /\ x.MorningstarSectorCode \notin {"Utilities", "FinancialServices"}
    /\ x.ForwardROA > 25

\* C9 (screens are never bypassed): every returned symbol is the symbol of an input
\* snapshot that passes the four screens; a snapshot with market cap 40,000,000 or
\* 50,000,000 is never returned.
C9_ScreensNeverBypassed ==
    pc = "changed" =>
      \A s \in Range(fineResult) :
        /\ \E i \in DOMAIN fine : fine[i].Symbol = s
        /\ \A i \in DOMAIN fine : fine[i].Symbol = s => PassesScreens(fine[i])

\* snapshots at 40,000,000 and at 50,000,000 came in with one that passes, and the
\* one that passes is returned
C9_Witness ==
    /\ pc = "changed"
    /\ \E i \in DOMAIN fine : fine[i].MarketCap = 40000000
    /\ \E i \in DOMAIN fine : fine[i].MarketCap = 50000000
    /\ Len(fineResult) = 1

\* C10 (target weight): every SetHoldings carries exactly 1/24 of total portfolio
\* value: its weight in thousandths times 24 is 1000.
C10_TargetWeight ==
    \A i \in Ops(events, "SetHoldings") : events[i].value * 24 = 1000


Popped(evs) == {evs[i].symbol : i \in Ops(evs, "pop")}

\* the month of the year of the calendar month 12 months before the current one
HorizonMonth == TimeMonth([abs |-> Time.abs - 12, day |-> Time.day])

\* the ledger keys whose stored month is m
KeysStoring(ps, m) == {ps[i].key : i \in {j \in DOMAIN ps : ps[j].value = m}}

\* C11 (sell step selection and frame): a cycle liquidates and removes exactly the
\* ledger entries whose stored month is the month 12 months before the cycle's
\* month, which are the symbols acquired 12 calendar months earlier; every other
\* entry stays with its stored month, and only symbols with a ledger entry are
\* liquidated.
C11_SellStepFrame ==
    [][pc = "changed" =>
         LET sold == KeysStoring(purchased_securities, HorizonMonth)
         IN  /\ Liquidated(events') = sold
             /\ Popped(events') = sold
             /\ sold = {s \in Symbols : acquiredAt[s] # 0
                                        /\ acquiredAt[s] = Time.abs - 12}
             /\ sold \cap DictKeys(purchased_securities') = {}
             /\ \A i \in DOMAIN purchased_securities :
                  purchased_securities[i].key \notin sold
                    => purchased_securities[i] \in Range(purchased_securities')
             /\ Liquidated(events') \subseteq DictKeys(purchased_securities)]_vars

\* a cycle has liquidated two entries and left two older entries in the ledger
C11_Witness ==
    /\ pc = "tick"
    /\ Cardinality(Liquidated(events)) = 2
    /\ Acquired(events) = {}
    /\ Len(purchased_securities) = 2


\* C12 (one cycle per month transition): a call of the Coarse Filter returns a list
\* exactly when warm-up is over and no list has been emitted for the tick's calendar
\* month, which is the first active tick and then the first tick of each month; it
\* then sets lastMonth to the tick's month, and otherwise leaves lastMonth alone.
C12_OneCyclePerMonth ==
    [][pc = "coarse" =>
         LET emits == coarseResult'.kind = "List"
         IN  /\ emits <=> (~IsWarmingUp /\ emittedAbs # Time.abs)
             /\ emits => /\ lastMonth' = TimeMonth(Time)
                         /\ emittedAbs = -1 \/ Time.day = 1
                         /\ pc' = "fine"
             /\ ~emits => /\ coarseResult' = Unchanged
                          /\ lastMonth' = lastMonth
                          /\ pc' = "tick"]_vars

\* the second year's first cycle has started, and a month of it has passed with one
\* cycle only
C12_Witness ==
    /\ pc = "tick"
    /\ Time.abs = 14
    /\ Time.day = DaysPerMonth
    /\ emittedAbs = 14
    /\ lastMonth = 2
    /\ coarseResult = Unchanged


\* the position of symbol s in the snapshot list input
InputIndex(input, s) == CHOOSE i \in DOMAIN input : input[i].Symbol = s

\* C13 (Coarse Filter result): an emitted list holds exactly the symbols of the input
\* snapshots that have fundamental data, each once, by dollar volume descending, and
\* symbols of equal dollar volume in their input order.
C13_CoarseResult ==
    coarseResult.kind = "List" =>
        LET out  == coarseResult.symbols
            kept == {i \in DOMAIN coarse : coarse[i].HasFundamentalData}
            At(p) == coarse[InputIndex(coarse, out[p])]
        IN  /\ Range(out) = {coarse[i].Symbol : i \in kept}
            /\ Len(out) = Cardinality(kept)
            /\ \A p, q \in DOMAIN out :
                 p < q => \/ At(p).DollarVolume > At(q).DollarVolume
                          \/ /\ At(p).DollarVolume = At(q).DollarVolume
                             /\ InputIndex(coarse, out[p]) < InputIndex(coarse, out[q])

\* a list was emitted for three snapshots: one without fundamental data is dropped,
\* the other two tie on dollar volume
C13_Witness ==
    /\ coarseResult.kind = "List"
    /\ Len(coarse) = 3
    /\ ~coarse[1].HasFundamentalData
    /\ coarse[2].HasFundamentalData /\ coarse[3].HasFundamentalData
    /\ coarse[2].DollarVolume = coarse[3].DollarVolume
    /\ coarseResult.symbols = <<coarse[2].Symbol, coarse[3].Symbol>>


\* the positions in input of the screened snapshots whose symbol is not a key of ps
Candidates(input, ps) ==
    {i \in DOMAIN input : PassesScreens(input[i]) /\ input[i].Symbol \notin DictKeys(ps)}

\* C14 (Fine Ranker truncation): the returned list is the first min(quota, n) entries
\* of the ranked list of the n screened symbols not in the ledger, in ranked order:
\* every omitted candidate ranks after every returned one; it is shorter than the
\* quota when n is, and empty when the input is empty or nothing survives.
C14_Truncation ==
    pc = "changed" =>
        LET cands == Candidates(fine, purchased_securities)
            n     == Cardinality(cands)
            At(p) == fine[CHOOSE i \in DOMAIN fine : fine[i].Symbol = fineResult[p]]
        IN  /\ Len(fineResult) = IF n < NumberSecuritiesPerMonth
                                 THEN n ELSE NumberSecuritiesPerMonth
            /\ Range(fineResult) \subseteq {fine[i].Symbol : i \in cands}
            /\ \A p, q \in DOMAIN fineResult : p < q => RanksBefore(fine, At(p), At(q))
            /\ \A p \in DOMAIN fineResult : \A i \in cands :
                 fine[i].Symbol \notin Range(fineResult) => RanksBefore(fine, At(p), fine[i])
            /\ (fine = <<>> \/ cands = {}) => fineResult = <<>>

\* of three snapshots one fails a screen and one is held: the list returned has the
\* one remaining symbol, fewer than the quota
C14_Witness ==
    /\ pc = "changed"
    /\ Len(fine) = 3
    /\ \E i \in DOMAIN fine : ~PassesScreens(fine[i])
    /\ \E i \in DOMAIN fine : /\ PassesScreens(fine[i])
                              /\ fine[i].Symbol \in DictKeys(purchased_securities)
    /\ Cardinality(Candidates(fine, purchased_securities)) = 1
    /\ Len(fineResult) = 1


\* C15 (ledger write frame): a step that changes the ledger is an OnSecuritiesChanged
\* step that pops or inserts; a Coarse Filter call and a Fine Ranker call, whatever
\* they return, leave the ledger as it is, and the Fine Ranker leaves lastMonth as it
\* is.
C15_LedgerWriteFrame ==
    [][/\ purchased_securities' # purchased_securities
            => /\ pc = "changed"
               /\ Ops(events', "pop") \cup Ops(events', "insert") # {}
       /\ pc \in {"coarse", "fine"} => purchased_securities' = purchased_securities
       /\ pc = "fine" => lastMonth' = lastMonth]_vars

\* the Coarse Filter has emitted a list and the Fine Ranker has returned symbols while
\* the ledger had entries, and the ledger waits for OnSecuritiesChanged
C15_Witness ==
    /\ pc = "changed"
    /\ coarseResult.kind = "List"
    /\ fineResult # <<>>
    /\ Len(purchased_securities) = 2
    /\ events = <<>>


\* C16 (slot capacity): the ledger never has more than 24 entries, and never more than
\* 2 entries with the same stored month.
C16_SlotCapacity ==
    /\ Len(purchased_securities) <= 24
    /\ \A m \in 1..12 : Cardinality(KeysStoring(purchased_securities, m)) <= 2

\* with all 24 slots taken, the cycle of the 13th month has sold two positions and
\* bought two, and 24 slots are taken again
C16_Witness ==
    /\ pc = "tick"
    /\ Time.abs = 13
    /\ Cardinality(Liquidated(events)) = 2
    /\ Cardinality(Acquired(events)) = 2
    /\ Len(purchased_securities) = 24


\* the events a step adds to the day's log
NewEvents == SubSeq(events', Len(events) + 1, Len(events'))

\* C17 (no same-month liquidation): whatever the sequence of OnSecuritiesChanged
\* calls, several in one calendar month included, no step liquidates a symbol in the
\* calendar month (month and year) in which it was acquired.
C17_NoSameMonthLiquidation ==
    [][\A s \in Liquidated(NewEvents) :
         ~(acquiredAt[s] # 0 /\ acquiredAt[s] = Time.abs)]_vars


\* C18 (no double acquisition): OnSecuritiesChanged never issues SetHoldings for a
\* symbol that has a ledger entry when the call starts, hence none at the buy; no
\* symbol it liquidates is bought in the same call, no symbol is bought twice in a
\* call, and the stored month of every entry that stays is not overwritten.
C18_NoDoubleAcquisition ==
    [][pc = "changed" =>
         /\ Acquired(NewEvents) \cap DictKeys(purchased_securities) = {}
         /\ Acquired(NewEvents) \cap Liquidated(NewEvents) = {}
         /\ Cardinality(Ops(NewEvents, "SetHoldings")) = Cardinality(Acquired(NewEvents))
         /\ \A s \in DictKeys(purchased_securities) \cap DictKeys(purchased_securities') :
              DictGet(purchased_securities', s) = DictGet(purchased_securities, s)]_vars

\* a cycle has liquidated a symbol that passes every screen of the same cycle's
\* ranking, and has bought other symbols
C18_Witness ==
    /\ pc = "tick"
    /\ Acquired(events) # {}
    /\ \E i \in DOMAIN fine :
         /\ fine[i].Symbol \in Liquidated(events)
         /\ PassesScreens(fine[i])
         /\ fine[i].Symbol \notin Acquired(events)


\* C19 (no over-allocation): the weight passed to SetHoldings, in thousandths, times
\* the number of ledger entries is at most 1000, in every state.
C19_NoOverAllocation ==
    /\ Len(purchased_securities) * percent_holding <= 1000
    /\ \A i \in Ops(events, "SetHoldings") :
         events[i].value * Len(purchased_securities) <= 1000

====
